---- MODULE Spec2Model ----
(***************************************************************************)
(* Model of ke2sql's KeemuBaseMixin (src/ke2sql/legacy/keemu/base.py):     *)
(* field classification, admission filter, record transformer, schema and  *)
(* index strategy, task identity and the streaming records() generator.    *)
(*                                                                         *)
(* Python values are tagged pairs <<tag, payload>>: strings are sequences  *)
(* of one-character strings, so that str.lower(), the column-type regex    *)
(* and the '[]' substring test are computed character by character.        *)
(***************************************************************************)
EXTENDS Integers, Sequences, FiniteSets, TLC

\* ---------------------------------------------------------------- bounds
MaxRecords == 2
MaxLimit == 2

\* ---------------------------------------------------------------- values
None == <<"none", <<>>>>
StrV(chars) == <<"str", chars>>
IntV(n) == <<"int", n>>
ListV(elems) == <<"list", elems>>
DictV(f) == <<"dict", f>>

\* Python truthiness (bool(value))
Truthy(v) ==
    CASE v[1] = "none" -> FALSE
      [] v[1] = "str"  -> Len(v[2]) > 0
      [] v[1] = "int"  -> v[2] # 0
      [] v[1] = "list" -> Len(v[2]) > 0
      [] OTHER -> TRUE

\* type(value) == list
IsList(v) == v[1] = "list"

UpperChars == {"A","B","C","D","E","F","G","H","I","J","K","L","M",
               "N","O","P","Q","R","S","T","U","V","W","X","Y","Z"}

LowerChar(c) ==
    CASE c = "Y" -> "y" [] c = "N" -> "n" [] c = "E" -> "e" [] c = "S" -> "s"
      [] c = "O" -> "o" [] OTHER -> c

\* str.lower()
Lower(chars) == [i \in DOMAIN chars |-> LowerChar(chars[i])]

\* ---------------------------------------------------------------- strings
D_INTEGER_PK == <<"I","N","T","E","G","E","R"," ","P","R","I","M","A","R","Y"," ","K","E","Y">>
D_TIMESTAMP_DEFAULT == <<"T","I","M","E","S","T","A","M","P"," ","D","E","F","A","U","L","T"," ","C","U","R","R","E","N","T","_","T","I","M","E","S","T","A","M","P">>
D_TIMESTAMP == <<"T","I","M","E","S","T","A","M","P">>
D_JSONB == <<"J","S","O","N","B">>
D_INTEGER == <<"I","N","T","E","G","E","R">>
D_TEXT_ARRAY == <<"T","E","X","T","[","]">>
D_VARCHAR_N_ARRAY == <<"V","A","R","C","H","A","R","(","1","0",")","[","]">>
D_INTEGER_SP_ARRAY == <<"I","N","T","E","G","E","R"," ","[","]">>
D_TEXT == <<"T","E","X","T">>
T_ecatalogue == <<"e","c","a","t","a","l","o","g","u","e">>
T_emultimedia == <<"e","m","u","l","t","i","m","e","d","i","a">>
T_etaxonomy == <<"e","t","a","x","o","n","o","m","y">>
S_Y == <<"Y">>
S_y == <<"y">>
S_N == <<"N">>
S_Yes == <<"Y","e","s">>
S_empty == <<>>
S_verified == <<"v","e","r","i","f","i","e","d">>
S_draft == <<"d","r","a","f","t">>
S_Room3 == <<"R","o","o","m"," ","3">>
S_rare == <<"r","a","r","e">>
S_Pending == <<"P","e","n","d","i","n","g">>

\* ---------------------------------------------------------------- schema
\* columns: the base columns every module declares
BaseColumns ==
    << <<"irn", D_INTEGER_PK>>,
       <<"created", D_TIMESTAMP_DEFAULT>>,
       <<"modified", D_TIMESTAMP>>,
       <<"deleted", D_TIMESTAMP>>,
       <<"properties", D_JSONB>>,
       <<"import_date", D_INTEGER>> >>

\* length of the leading run of upper-case letters starting at position i
RECURSIVE UpperRun(_, _)
UpperRun(chars, i) ==
    IF i <= Len(chars) /\ chars[i] \in UpperChars
    THEN 1 + UpperRun(chars, i + 1)
    ELSE 0

\* regex.match(column_def).group(1) for '(^[A-Z]+(\[\])?)';
\* <<>> stands for "no match" (the code then raises on .group)
RegexGroup1(column_def) ==
    LET n == UpperRun(column_def, 1) IN
    IF n = 0 THEN <<>>
    ELSE IF n + 2 <= Len(column_def) /\ column_def[n + 1] = "[" /\ column_def[n + 2] = "]"
         THEN SubSeq(column_def, 1, n + 2)
         ELSE SubSeq(column_def, 1, n)

\* get_column_types(): [(column_name, base type token)] in declaration order
get_column_types(cols) ==
    [i \in DOMAIN cols |-> <<cols[i][1], RegexGroup1(cols[i][2])>>]

\* _column_is_array(col_def): '[]' in col_def
column_is_array(col_def) ==
    \E i \in 1..(Len(col_def) - 1) : col_def[i] = "[" /\ col_def[i + 1] = "]"

\* self._array_fields as built by __init__
ArrayFields(cols) ==
    LET IsArr(ct) == column_is_array(ct[2])
        Name(ct) == ct[1]
        sel == SelectSeq(get_column_types(cols), IsArr)
    IN [i \in DOMAIN sel |-> Name(sel[i])]

\* dict(self.columns).keys()
ColumnNames(cols) == {cols[i][1] : i \in DOMAIN cols}

\* the statement ensure_indexes formats for one column
IndexQuery(tbl, idx_type, col_name) ==
    [table |-> tbl, idx_type |-> idx_type, col_name |-> col_name]

\* ensure_indexes(): the statements executed on the cursor, in order
EnsureIndexQueries(tbl, cols) ==
    LET Indexed(ct) == ct[1] \notin {"irn", "properties"}
        Query(ct) == IndexQuery(tbl, IF column_is_array(ct[2]) THEN "GIN" ELSE "BTREE", ct[1])
        sel == SelectSeq(get_column_types(cols), Indexed)
    IN [i \in DOMAIN sel |-> Query(sel[i])]

\* ---------------------------------------------------------------- fields
\* __init__: field mappings whose alias is a defined column
MetadataFields(flds, cols) ==
    LET IsCol(f) == f[2] \in ColumnNames(cols)
        Id(f) == f
        sel == SelectSeq(flds, IsCol)
    IN [i \in DOMAIN sel |-> Id(sel[i])]

\* __init__: field mappings without a corresponding table column
PropertyFields(flds, cols) ==
    LET NotCol(f) == f[2] \notin ColumnNames(cols)
        Id(f) == f
        sel == SelectSeq(flds, NotCol)
    IN [i \in DOMAIN sel |-> Id(sel[i])]

\* ---------------------------------------------------------------- modules
\* The concrete modules mixing KeemuBaseMixin in: each declares module_name,
\* its extra columns, its fields (ke_field, alias) and its filters
\* (field -> [(operator, value)], in iteration order).
Modules ==
    { [module_name |-> T_ecatalogue,
       columns |-> BaseColumns \o << <<"loc", D_TEXT_ARRAY>>, <<"count", D_INTEGER>> >>,
       fields |-> << <<"status", "status">>, <<"loc", "loc">>,
                     <<"note", "note">>, <<"count", "count">> >>,
       filters |-> << >>],
      [module_name |-> T_emultimedia,
       columns |-> BaseColumns \o << <<"loc", D_VARCHAR_N_ARRAY>>, <<"kind", D_TEXT>> >>,
       fields |-> << <<"loc", "loc">>, <<"note", "remark">>,
                     <<"count", "remark">>, <<"status", "status">> >>,
       filters |-> << <<"status", << <<"eq", StrV(S_verified)>> >> >>,
                      <<"note", << <<"ne", StrV(S_Pending)>> >> >> >>],
      [module_name |-> T_etaxonomy,
       columns |-> BaseColumns \o << <<"loc", D_INTEGER_SP_ARRAY>>, <<"tags", D_TEXT_ARRAY>> >>,
       fields |-> << <<"count", "tags">>, <<"count", "number">>,
                     <<"note", "note">>, <<"loc", "place">> >>,
       filters |-> << <<"status", << <<"ne", StrV(S_draft)>>, <<"is_not", None>> >> >>,
                      <<"count", << <<"ne", IntV(5)>> >> >> >>] }

\* ---------------------------------------------------------------- records
\* Raw records as the parser yields them: attribute -> value; an attribute
\* the export line did not carry is not in the record's domain.
RecordPool ==
    { [irn |-> IntV(1), AdmPublishWebNoPasswordFlag |-> StrV(S_Y), status |-> StrV(S_verified),
       loc |-> StrV(S_Room3), note |-> StrV(S_rare), count |-> IntV(0)],
      [irn |-> IntV(2), AdmPublishWebNoPasswordFlag |-> StrV(S_y), status |-> StrV(S_draft),
       loc |-> ListV(<<StrV(S_Room3)>>), note |-> StrV(S_empty), count |-> IntV(5)],
      [irn |-> IntV(3), AdmPublishWebNoPasswordFlag |-> StrV(S_N), status |-> StrV(S_verified),
       loc |-> StrV(S_Room3)],
      [irn |-> IntV(4), status |-> StrV(S_verified), note |-> StrV(S_rare)],
      [AdmPublishWebNoPasswordFlag |-> StrV(S_Y), status |-> StrV(S_verified),
       loc |-> StrV(S_Room3), note |-> StrV(S_rare)],
      [irn |-> IntV(6), AdmPublishWebNoPasswordFlag |-> StrV(S_y), status |-> StrV(S_verified),
       loc |-> StrV(S_empty), count |-> IntV(5)],
      [irn |-> IntV(7), AdmPublishWebNoPasswordFlag |-> StrV(S_Yes), status |-> StrV(S_verified)] }

\* getattr(record, field, None)
getattr(record, field) ==
    IF field \in DOMAIN record THEN record[field] ELSE None

AttributeError == <<"AttributeError", <<>>>>

\* record.<field>: what a missing attribute gives is the parser's Record class's
\* business: it raises AttributeError (strict) or resolves to None
Attr(record, field, strictAttrs) ==
    IF field \in DOMAIN record THEN record[field]
    ELSE IF strictAttrs THEN AttributeError ELSE None

\* <value>.lower(): only str has the method
LowerOf(v) ==
    IF v[1] = "str" THEN StrV(Lower(v[2])) ELSE AttributeError

\* ---------------------------------------------------------------- admission
\* variant: the flag is compared without lower-casing it
is_web_publishable_cased(record, strictAttrs) ==
    LET flag == Attr(record, "AdmPublishWebNoPasswordFlag", strictAttrs) IN
    IF flag[1] # "str"
    THEN [raised |-> TRUE, value |-> FALSE]
    ELSE [raised |-> FALSE, value |-> (flag = StrV(S_y))]

\* _is_web_publishable(record): [raised, value]
is_web_publishable(record, strictAttrs) ==
    LET lowered == LowerOf(Attr(record, "AdmPublishWebNoPasswordFlag", strictAttrs)) IN
    IF lowered = AttributeError
    THEN [raised |-> TRUE, value |-> FALSE]
    ELSE [raised |-> FALSE, value |-> (lowered = StrV(S_y))]

\* filter_operator(value, filter_value): operator.eq / operator.ne / operator.is_not
FilterOperator(op, value, filter_value) ==
    CASE op = "eq" -> value = filter_value
      [] op = "ne" -> value # filter_value
      [] op = "is_not" -> ~(value = None /\ filter_value = None)

\* inner loop of _apply_filters: [ok, evals] where evals counts operator calls
RECURSIVE ApplyRules(_, _)
ApplyRules(value, rules) ==
    IF rules = <<>> THEN [ok |-> TRUE, evals |-> 0]
    ELSE IF ~FilterOperator(Head(rules)[1], value, Head(rules)[2])
         THEN [ok |-> FALSE, evals |-> 1]
         ELSE LET r == ApplyRules(value, Tail(rules)) IN
              [ok |-> r.ok, evals |-> r.evals + 1]

\* _apply_filters(record): [ok, evals]
RECURSIVE apply_filters(_, _)
apply_filters(record, fltrs) ==
    IF fltrs = <<>> THEN [ok |-> TRUE, evals |-> 0]
    ELSE LET r1 == ApplyRules(getattr(record, Head(fltrs)[1]), Head(fltrs)[2]) IN
         IF ~r1.ok THEN r1
         ELSE LET r2 == apply_filters(record, Tail(fltrs)) IN
              [ok |-> r2.ok, evals |-> r1.evals + r2.evals]

\* ---------------------------------------------------------------- transformer
\* variant: only absent values are left out of the dict
get_properties_not_none(record, pfields) ==
    LET kept == {i \in DOMAIN pfields : getattr(record, pfields[i][1]) # None}
        keys == {pfields[i][2] : i \in kept}
        Last(k) == CHOOSE i \in kept : pfields[i][2] = k /\ \A j \in kept : pfields[j][2] = k => j <= i
    IN [k \in keys |-> getattr(record, pfields[Last(k)][1])]

\* get_properties(record): the dict comprehension over _property_fields;
\* a later mapping of the same alias overwrites an earlier one
get_properties(record, pfields) ==
    LET kept == {i \in DOMAIN pfields : Truthy(getattr(record, pfields[i][1]))}
        keys == {pfields[i][2] : i \in kept}
        Last(k) == CHOOSE i \in kept : pfields[i][2] = k /\ \A j \in kept : pfields[j][2] = k => j <= i
    IN [k \in keys |-> getattr(record, pfields[Last(k)][1])]

\* the loop of record_to_dict over _metadata_fields
RECURSIVE SetMetadata(_, _, _, _)
SetMetadata(record_dict, record, mfields, afields) ==
    IF mfields = <<>> THEN record_dict
    ELSE LET alias == Head(mfields)[2]
             value == getattr(record, Head(mfields)[1])
             isArray == \E i \in DOMAIN afields : afields[i] = alias
             stored == IF Truthy(value) /\ isArray /\ ~IsList(value)
                       THEN ListV(<<value>>) ELSE value
         IN SetMetadata((alias :> stored) @@ record_dict, record, Tail(mfields), afields)

\* record_to_dict(record): [raised, row]
record_to_dict(record, strictAttrs, dt, mfields, pfields, afields) ==
    LET irn == Attr(record, "irn", strictAttrs) IN
    IF irn = AttributeError
    THEN [raised |-> TRUE, row |-> << >>]
    ELSE [raised |-> FALSE,
          row |-> SetMetadata(("irn" :> irn) @@ ("properties" :> DictV(get_properties(record, pfields)))
                                @@ ("import_date" :> IntV(dt)),
                              record, mfields, afields)]

\* ---------------------------------------------------------------- task identity
Dates == {20240101, 20240102}

\* limit = luigi.IntParameter(default=None, significant=False)
Limits == {None} \cup {IntV(n) : n \in 0..MaxLimit}

DigitChar(d) ==
    CASE d = 0 -> "0" [] d = 1 -> "1" [] d = 2 -> "2" [] d = 3 -> "3" [] d = 4 -> "4"
      [] d = 5 -> "5" [] d = 6 -> "6" [] d = 7 -> "7" [] d = 8 -> "8" [] d = 9 -> "9"

\* str(n) for n >= 0
RECURSIVE Digits(_)
Digits(n) ==
    IF n < 10 THEN <<DigitChar(n)>> ELSE Digits(n \div 10) \o <<DigitChar(n % 10)>>

\* Parameter.serialize(value): str(value)
Serialize(v) ==
    IF v = None THEN <<"N","o","n","e">> ELSE Digits(v[2])

\* the task's parameters in sorted-name order: (name, significant, value)
Params(dt, lim) ==
    << <<"date", TRUE, IntV(dt)>>, <<"limit", FALSE, lim>> >>

\* variant: every parameter is serialized, significant or not
to_str_params_all(params) ==
    [i \in DOMAIN params |-> <<params[i][1], Serialize(params[i][3])>>]

\* to_str_params(only_significant=True): [(name, serialized value)]
to_str_params(params) ==
    LET Significant(p) == p[2]
        Ser(p) == <<p[1], Serialize(p[3])>>
        sel == SelectSeq(params, Significant)
    IN [i \in DOMAIN sel |-> Ser(sel[i])]

TASK_ID_INCLUDE_PARAMS == 3
TASK_ID_TRUNCATE_PARAMS == 16

RECURSIVE JoinValues(_)
\* '_'.join(value[:TASK_ID_TRUNCATE_PARAMS] for value in ...)
JoinValues(strparams) ==
    IF strparams = <<>> THEN <<>>
    ELSE LET v == Head(strparams)[2]
             t == SubSeq(v, 1, IF Len(v) < TASK_ID_TRUNCATE_PARAMS THEN Len(v) ELSE TASK_ID_TRUNCATE_PARAMS)
         IN IF Tail(strparams) = <<>> THEN t ELSE t \o <<"_">> \o JoinValues(Tail(strparams))

CharCode(c) ==
    CASE c = "0" -> 0 [] c = "1" -> 1 [] c = "2" -> 2 [] c = "3" -> 3 [] c = "4" -> 4
      [] c = "5" -> 5 [] c = "6" -> 6 [] c = "7" -> 7 [] c = "8" -> 8 [] c = "9" -> 9
      [] OTHER -> 11

RECURSIVE CharSum(_)
CharSum(chars) ==
    IF chars = <<>> THEN 0 ELSE CharCode(Head(chars)) + CharSum(Tail(chars))

RECURSIVE ParamHash(_)
\* digest of the serialized parameters, abstracted to a short checksum
\* (collides more often than the md5 prefix it stands for)
ParamHash(strparams) ==
    IF strparams = <<>> THEN 0
    ELSE (CharSum(Head(strparams)[2]) + 7 * ParamHash(Tail(strparams))) % 64

\* luigi.task.task_id_str(task_family, params)
task_id_str(task_family, strparams) ==
    task_family \o <<"_">>
      \o JoinValues(SubSeq(strparams, 1, IF Len(strparams) < TASK_ID_INCLUDE_PARAMS
                                         THEN Len(strparams) ELSE TASK_ID_INCLUDE_PARAMS))
      \o <<"_">> \o Digits(ParamHash(strparams))

\* __init__: self.task_id
TaskId(tbl, dt, lim) == task_id_str(tbl, to_str_params(Params(dt, lim)))

\* ---------------------------------------------------------------- state
VARIABLES
    table,            \* self.table (= module_name)
    columns,          \* self.columns
    fields,           \* self.fields
    filters,          \* self.filters
    metadata_fields,  \* self._metadata_fields
    property_fields,  \* self._property_fields
    array_fields,     \* self._array_fields
    date,             \* self.date
    limit,            \* self.limit
    task_id,          \* self.task_id
    record_count,     \* self.record_count
    insert_count,     \* self.insert_count
    input,            \* the records Parser(self.input().path) will yield
    strictAttrs,      \* whether a missing attribute of a parser Record raises
    pos,              \* number of records requested from the parser
    pc,               \* position of the records() generator
    rows,             \* rows yielded so far: [idx, row]
    deleted,          \* delete_record calls so far (index of the record)
    outcome,          \* per consumed record: [admitted, evals]
    cursor,           \* statements executed by ensure_indexes
    peers             \* other transformation units constructed

vars == <<table, columns, fields, filters, metadata_fields, property_fields, array_fields,
          date, limit, task_id, record_count, insert_count, input, strictAttrs, pos, pc,
          rows, deleted, outcome, cursor, peers>>

config == <<table, columns, fields, filters, metadata_fields, property_fields, array_fields,
            date, limit, task_id, input, strictAttrs>>

MaxPeers == 1

RECURSIVE SeqsUpTo(_, _)
\* all sequences over S of length <= n
SeqsUpTo(S, n) ==
    IF n = 0 THEN {<<>>}
    ELSE LET shorter == SeqsUpTo(S, n - 1) IN
         shorter \cup {Append(q, x) : q \in {r \in shorter : Len(r) = n - 1}, x \in S}

\* __init__ of a unit of module m
Construct(m, dt, lim) ==
    /\ table = m.module_name
    /\ columns = m.columns
    /\ fields = m.fields
    /\ filters = m.filters
    /\ metadata_fields = MetadataFields(m.fields, m.columns)
    /\ property_fields = PropertyFields(m.fields, m.columns)
    /\ array_fields = ArrayFields(m.columns)
    /\ date = dt
    /\ limit = lim
    /\ task_id = TaskId(m.module_name, dt, lim)
    /\ record_count = 0
    /\ insert_count = 0

Init ==
    /\ \E m \in Modules, dt \in Dates, lim \in Limits : Construct(m, dt, lim)
    /\ input \in SeqsUpTo(RecordPool, MaxRecords)
    /\ strictAttrs \in BOOLEAN
    /\ pos = 0
    /\ pc = "loop"
    /\ rows = <<>>
    /\ deleted = <<>>
    /\ outcome = <<>>
    /\ cursor = <<>>
    /\ peers = {}

\* ---------------------------------------------------------------- records()
\* for record in Parser(...): self.record_count += 1
NextRecord ==
    /\ pc = "loop"
    /\ pos < Len(input)
    /\ pos' = pos + 1
    /\ record_count' = record_count + 1
    /\ pc' = "test"
    /\ UNCHANGED <<config, insert_count, rows, deleted, outcome, cursor, peers>>

\* the parser is exhausted: the loop ends and the summary is logged
Exhausted ==
    /\ pc = "loop"
    /\ pos = Len(input)
    /\ pc' = "done"
    /\ UNCHANGED <<config, record_count, insert_count, pos, rows, deleted, outcome, cursor, peers>>

\* the condition of line 111: [raised, admitted, evals]
Admission(record) ==
    LET pub == is_web_publishable(record, strictAttrs) IN
    IF pub.raised THEN [raised |-> TRUE, admitted |-> FALSE, evals |-> 0]
    ELSE IF ~pub.value THEN [raised |-> FALSE, admitted |-> FALSE, evals |-> 0]
    ELSE LET f == apply_filters(record, filters) IN
         [raised |-> FALSE, admitted |-> f.ok, evals |-> f.evals]

Transform(record) ==
    record_to_dict(record, strictAttrs, date, metadata_fields, property_fields, array_fields)

\* admitted: self.insert_count += 1; yield self.record_to_dict(record)
Publish ==
    /\ pc = "test"
    /\ LET a == Admission(input[pos]) IN
       /\ ~a.raised /\ a.admitted
       /\ ~Transform(input[pos]).raised
       /\ insert_count' = insert_count + 1
       /\ rows' = Append(rows, [idx |-> pos, row |-> Transform(input[pos]).row])
       /\ outcome' = Append(outcome, [admitted |-> TRUE, evals |-> a.evals])
    /\ pc' = "yielded"
    /\ UNCHANGED <<config, record_count, pos, deleted, cursor, peers>>

\* not admitted: self.delete_record(record)
Reject ==
    /\ pc = "test"
    /\ LET a == Admission(input[pos]) IN
       /\ ~a.raised /\ ~a.admitted
       /\ deleted' = Append(deleted, pos)
       /\ outcome' = Append(outcome, [admitted |-> FALSE, evals |-> a.evals])
    /\ pc' = "limit"
    /\ UNCHANGED <<config, record_count, insert_count, pos, rows, cursor, peers>>

\* an AttributeError leaves records(): from the flag test, or from
\* record_to_dict after insert_count was incremented
Raise ==
    /\ pc = "test"
    /\ LET a == Admission(input[pos]) IN
       \/ /\ a.raised
          /\ UNCHANGED insert_count
          /\ outcome' = Append(outcome, [admitted |-> FALSE, evals |-> 0])
       \/ /\ ~a.raised /\ a.admitted
          /\ Transform(input[pos]).raised
          /\ insert_count' = insert_count + 1
          /\ outcome' = Append(outcome, [admitted |-> TRUE, evals |-> a.evals])
    /\ pc' = "raised"
    /\ UNCHANGED <<config, record_count, pos, rows, deleted, cursor, peers>>

\* the consumer asks for the next row: the generator resumes after the yield
Resume ==
    /\ pc = "yielded"
    /\ pc' = "limit"
    /\ UNCHANGED <<config, record_count, insert_count, pos, rows, deleted, outcome, cursor, peers>>

\* if self.limit and self.record_count >= self.limit: break
CheckLimit ==
    /\ pc = "limit"
    /\ pc' = IF Truthy(limit) /\ record_count >= limit[2] THEN "done" ELSE "loop"
    /\ UNCHANGED <<config, record_count, insert_count, pos, rows, deleted, outcome, cursor, peers>>

\* ensure_indexes(connection)
EnsureIndexes ==
    /\ cursor = <<>>
    /\ EnsureIndexQueries(table, columns) # <<>>
    /\ cursor' = EnsureIndexQueries(table, columns)
    /\ UNCHANGED <<config, record_count, insert_count, pos, pc, rows, deleted, outcome, peers>>

Next ==
    \/ NextRecord
    \/ Exhausted
    \/ Publish
    \/ Reject
    \/ Raise
    \/ Resume
    \/ CheckLimit
    \/ EnsureIndexes

Spec == Init /\ [][Next]_vars

\* ---------------------------------------------------------------- units
\* another unit (bulk copy or incremental update) is constructed
ConstructPeer(kind, m, dt, lim) ==
    /\ Cardinality(peers) < MaxPeers
    /\ peers' = peers \cup {[kind |-> kind, table |-> m.module_name, date |-> dt, limit |-> lim,
                             task_id |-> TaskId(m.module_name, dt, lim)]}
    /\ UNCHANGED <<config, record_count, insert_count, pos, pc, rows, deleted, outcome, cursor>>

TaskInit ==
    /\ \E m \in Modules, dt \in Dates, lim \in Limits : Construct(m, dt, lim)
    /\ input = <<>>
    /\ strictAttrs = TRUE
    /\ pos = 0
    /\ pc = "loop"
    /\ rows = <<>>
    /\ deleted = <<>>
    /\ outcome = <<>>
    /\ cursor = <<>>
    /\ peers = {}

TaskNext ==
    \E kind \in {"copy", "update"}, m \in Modules, dt \in Dates, lim \in Limits :
        ConstructPeer(kind, m, dt, lim)

TaskSpec == TaskInit /\ [][TaskNext]_vars

\* ---------------------------------------------------------------- properties
FlagName == "AdmPublishWebNoPasswordFlag"

HasFlag(rec) == FlagName \in DOMAIN rec

\* the flag is 'y' or 'Y'
FlagIsY(rec) == HasFlag(rec) /\ rec[FlagName] \in {StrV(<<"y">>), StrV(<<"Y">>)}

RECURSIVE FlatRules(_)
\* the configured rules (field, operator, value) in evaluation order
FlatRules(fltrs) ==
    IF fltrs = <<>> THEN <<>>
    ELSE [k \in DOMAIN Head(fltrs)[2] |->
             <<Head(fltrs)[1], Head(fltrs)[2][k][1], Head(fltrs)[2][k][2]>>]
         \o FlatRules(Tail(fltrs))

RulePasses(rec, rule) == FilterOperator(rule[2], getattr(rec, rule[1]), rule[3])

FailingRules(rec) ==
    {k \in DOMAIN FlatRules(filters) : ~RulePasses(rec, FlatRules(filters)[k])}

Min(S) == CHOOSE x \in S : \A y \in S : x <= y

\* records whose pass through the loop body is over
Consumed == {i \in 1..pos : ~(i = pos /\ pc = "test")}

RowsOf(i) == {k \in DOMAIN rows : rows[k].idx = i}
DeletesOf(i) == {k \in DOMAIN deleted : deleted[k] = i}

\* C2: a record is admitted iff its flag is 'y'/'Y' and every configured rule
\* passes; a record whose flag value is anything else is rejected (deleted, no
\* row) under every filter configuration without any operator being called;
\* with the flag set, operators are called up to the first failing rule only.
C2_Admission ==
    \A i \in DOMAIN outcome :
        LET rec == input[i] IN
        /\ outcome[i].admitted <=> (FlagIsY(rec) /\ FailingRules(rec) = {})
        /\ ~FlagIsY(rec) => outcome[i].evals = 0 /\ RowsOf(i) = {}
        /\ (HasFlag(rec) /\ ~FlagIsY(rec)) => Cardinality(DeletesOf(i)) = 1
        /\ FlagIsY(rec) =>
              outcome[i].evals = IF FailingRules(rec) = {} THEN Len(FlatRules(filters))
                                 ELSE Min(FailingRules(rec))

\* an upper-case 'Y' record admitted through two rules or more, next to a
\* record with another flag value rejected while rules are configured
C2_Witness ==
    /\ Len(FlatRules(filters)) >= 2
    /\ \E i \in DOMAIN outcome :
          /\ getattr(input[i], FlagName) = StrV(S_Y)
          /\ outcome[i].admitted /\ outcome[i].evals >= 2
    /\ \E j \in DOMAIN outcome :
          /\ HasFlag(input[j]) /\ ~FlagIsY(input[j])
          /\ DeletesOf(j) # {}

\* C8: a unit's task_id equals this unit's task_id exactly when both have the
\* same table and the same date, whatever their limits are.
C8_TaskIdentity ==
    /\ \A p \in peers : (p.task_id = task_id) <=> (p.table = table /\ p.date = date)
    /\ \A p, q \in peers : (p.task_id = q.task_id) <=> (p.table = q.table /\ p.date = q.date)

\* an update unit of the same table and date with another limit
C8_Witness ==
    \E p \in peers :
        /\ p.kind = "update"
        /\ p.table = table /\ p.date = date
        /\ p.limit # limit /\ p.limit # None /\ limit # None

\* the field-mapping partition: every declared mapping is on exactly one
\* side, the metadata side iff its alias is a declared column name
Partition ==
    /\ Len(metadata_fields) + Len(property_fields) = Len(fields)
    /\ \A i \in DOMAIN fields :
          LET inMeta == \E k \in DOMAIN metadata_fields : metadata_fields[k] = fields[i]
              inProp == \E k \in DOMAIN property_fields : property_fields[k] = fields[i]
          IN /\ inMeta # inProp
             /\ inMeta <=> fields[i][2] \in ColumnNames(columns)
    /\ \A k \in DOMAIN metadata_fields : \E i \in DOMAIN fields : fields[i] = metadata_fields[k]
    /\ \A k \in DOMAIN property_fields : \E i \in DOMAIN fields : fields[i] = property_fields[k]

PropertiesOf(r) == r.row["properties"][2]

\* neither absent nor an empty string or sequence
NotEmpty(v) == v # None /\ ~(v[1] \in {"str", "list"} /\ v[2] = <<>>)

\* C7 as stated: the partition is total and disjoint, and the keys of
\* `properties` are exactly the aliases of the property mappings whose value is
\* not empty/absent, each mapped to that value, none of them a column name.
C7_Original ==
    /\ Partition
    /\ \A k \in DOMAIN rows :
          LET rec == input[rows[k].idx]
              props == PropertiesOf(rows[k])
          IN /\ DOMAIN props = {property_fields[i][2] :
                                  i \in {j \in DOMAIN property_fields :
                                           NotEmpty(getattr(rec, property_fields[j][1]))}}
             /\ \A i \in DOMAIN property_fields :
                   NotEmpty(getattr(rec, property_fields[i][1]))
                     => props[property_fields[i][2]] = getattr(rec, property_fields[i][1])
             /\ DOMAIN props \cap ColumnNames(columns) = {}

\* C7 amended: the partition is total and disjoint, and the keys of
\* `properties` are exactly the aliases of the property mappings whose value is
\* truthy (absent, empty, and also 0 are left out), each mapped to the value of
\* the last such mapping declared for the alias, none of them a column name.
C7_Amended ==
    /\ Partition
    /\ \A k \in DOMAIN rows :
          LET rec == input[rows[k].idx]
              props == PropertiesOf(rows[k])
              kept == {j \in DOMAIN property_fields : Truthy(getattr(rec, property_fields[j][1]))}
          IN /\ DOMAIN props = {property_fields[i][2] : i \in kept}
             /\ \A i \in kept :
                   (\A j \in kept : property_fields[j][2] = property_fields[i][2] => j <= i)
                     => props[property_fields[i][2]] = getattr(rec, property_fields[i][1])
             /\ DOMAIN props \cap ColumnNames(columns) = {}

\* a row whose record carries 0 for one property mapping and a non-empty
\* value for another, in a module with both metadata and property mappings
C7_Witness ==
    /\ metadata_fields # <<>>
    /\ \E k \in DOMAIN rows :
          /\ \E i \in DOMAIN property_fields :
                getattr(input[rows[k].idx], property_fields[i][1]) = IntV(0)
          /\ DOMAIN PropertiesOf(rows[k]) # {}

\* passes admission: the flag is 'y'/'Y' and every configured rule passes
Admissible(rec) == FlagIsY(rec) /\ FailingRules(rec) = {}

\* C1: every record consumed from the parser gets exactly one outcome: one row
\* and no delete_record call if it passes admission, one delete_record call
\* and no row if it does not.
C1_OneOutcome ==
    \A i \in Consumed :
        IF Admissible(input[i])
        THEN Cardinality(RowsOf(i)) = 1 /\ DeletesOf(i) = {}
        ELSE Cardinality(DeletesOf(i)) = 1 /\ RowsOf(i) = {}

\* C3: a record without the web-publishable flag is rejected normally: it is
\* handed to delete_record, no error leaves records(), the stream goes on.
C3_MissingFlagRejected ==
    \A i \in Consumed :
        ~HasFlag(input[i]) =>
            /\ Cardinality(DeletesOf(i)) = 1
            /\ RowsOf(i) = {}
            /\ ~(pc = "raised" /\ i = pos)

\* C4: in every row, a metadata mapping onto an array column holds null if the
\* record's value is absent, the value itself if it is a sequence, and a
\* one-element sequence of the value if it is any other value, 0 and the
\* empty string included.
C4_ArrayColumns ==
    \A k \in DOMAIN rows :
        \A i \in DOMAIN metadata_fields :
            LET alias == metadata_fields[i][2]
                value == getattr(input[rows[k].idx], metadata_fields[i][1])
            IN (\E a \in DOMAIN array_fields : array_fields[a] = alias) =>
                 rows[k].row[alias] = IF value = None THEN None
                                      ELSE IF IsList(value) THEN value
                                      ELSE ListV(<<value>>)

\* the column (name, declaration) is in _array_fields
InArrayFields(name) == \E a \in DOMAIN array_fields : array_fields[a] = name

\* C5: a column is treated as array-typed, in _array_fields and in the index
\* method chosen for it, iff its declaration contains '[]' anywhere.
C5_ArrayMarker ==
    \A i \in DOMAIN columns :
        /\ InArrayFields(columns[i][1]) <=> column_is_array(columns[i][2])
        /\ \A q \in DOMAIN cursor :
              cursor[q].col_name = columns[i][1] =>
                 (cursor[q].idx_type = "GIN" <=> column_is_array(columns[i][2]))

\* the statements C6 expects for the declared columns
ExpectedIndexes ==
    LET Indexed(c) == c[1] \notin {"irn", "properties"}
        Query(c) == IndexQuery(table, IF column_is_array(c[2]) THEN "GIN" ELSE "BTREE", c[1])
        sel == SelectSeq(columns, Indexed)
    IN [i \in DOMAIN sel |-> Query(sel[i])]

\* C6: ensure_indexes issues, in declaration order, one CREATE INDEX per
\* declared column other than irn and properties, GIN iff the column is
\* array-typed and BTREE otherwise.
C6_Indexes ==
    cursor # <<>> => cursor = ExpectedIndexes

\* C9: a record without irn that reaches the transformer produces no row and
\* does not end records(): later records are still consumed.
C9_MalformedIsolated ==
    \A i \in Consumed :
        ("irn" \notin DOMAIN input[i] /\ i \in DOMAIN outcome /\ outcome[i].admitted) =>
            /\ RowsOf(i) = {}
            /\ ~(pc = "raised" /\ i = pos)

\* the number of records one run requests under its limit
Requested ==
    IF limit # None /\ limit[2] > 0 /\ limit[2] < Len(input) THEN limit[2] ELSE Len(input)

\* C10: a run requests exactly min(limit, N) records (all N without a limit),
\* counts each once, and at every loop boundary
\* record_count = insert_count + delete_record calls, insert_count <= record_count.
C10_LimitAndCounters ==
    /\ record_count = pos
    /\ pos <= Requested
    /\ pc \in {"done", "raised"} => pos = Requested
    /\ pc \in {"loop", "limit", "done"} =>
          /\ record_count = insert_count + Len(deleted)
          /\ insert_count <= record_count

====
